---------------------------- MODULE Spec2Model ----------------------------
(***************************************************************************)
(* Model of the pelmeni packing optimizer (src/utils/geometry.ts) and of    *)
(* the App component that drives it (src/unnamed/part_000).                *)
(*                                                                         *)
(* Numbers: a JavaScript number is modelled as a fixed-point number, an    *)
(* integer n standing for n / Scale.  Every product, quotient and square   *)
(* root is rounded to the nearest representable value, as the floating     *)
(* point operations of the source round theirs (with a far shorter         *)
(* mantissa).  The values Infinity, -Infinity and NaN, which the source    *)
(* produces for an empty polygon or a zero pitch, are modelled explicitly  *)
(* where they arise (the bounding box and the loop bound `steps`).         *)
(***************************************************************************)
EXTENDS Integers, Sequences, FiniteSets, TLC

VARIABLES
    polygon,     \* argument: Point[] (sequence of [x, y])
    radius,      \* argument: radius
    spacing,     \* argument: spacing
    pc,          \* position in optimizeCircles: "scan" | "done"
    k,           \* number of (angle, offX, offY) combinations completed
    maxCount,    \* local maxCount
    bestResult,  \* local bestResult
    result,      \* the returned list (<<>> until the return)
    visited,     \* lattice points enumerated so far by the row/col loops
    radius2,     \* argument of a second call on the same polygon (PairSpec)
    spacing2,    \* argument of the second call (PairSpec)
    maxCount2,   \* local maxCount of the second call (PairSpec)
    areas,       \* results of calculatePolygonArea (AreaSpec)
    mode,            \* App state: AppMode
    points,          \* App state: Point[]
    circles,         \* App state: Circle[]
    pelmeniDiameter, \* App state: slider value, mm
    recipe,          \* App state: RecipeData | null
    loadingRecipe,   \* App state: boolean
    timers,          \* pending setTimeout callbacks of handleOptimize, oldest first
    fetches          \* pending fetchPelmeniRecipe promises of handleGetRecipe

geometryVars == <<polygon, radius, spacing, pc, k, maxCount, bestResult, result, visited,
                  radius2, spacing2, maxCount2, areas>>

appVars == <<mode, points, circles, pelmeniDiameter, recipe, loadingRecipe, timers, fetches>>

vars == <<polygon, radius, spacing, pc, k, maxCount, bestResult, result, visited,
          radius2, spacing2, maxCount2, areas,
          mode, points, circles, pelmeniDiameter, recipe, loadingRecipe, timers, fetches>>

---------------------------------------------------------------------------
(* Fixed-point arithmetic                                                  *)

Scale == 1000

\* n / dn rounded to the nearest integer (dn # 0)
Round(n, dn) ==
    IF dn > 0 THEN (2 * n + dn) \div (2 * dn)
              ELSE (2 * (-n) + (-dn)) \div (2 * (-dn))

Mul(a, b) == Round(a * b, Scale)

Div(a, b) == Round(a * Scale, b)

Half(a) == Round(a, 2)

Abs(a) == IF a < 0 THEN -a ELSE a

Min2(a, b) == IF a < b THEN a ELSE b

Max2(a, b) == IF a > b THEN a ELSE b

\* Math.ceil of a fixed-point number, as an integer
Ceil(a) == -((-a) \div Scale)

\* the largest s in b[1]..b[2] with s * s <= b[3], by bisection (b[1]^2 <= b[3])
ISqrtSearch[b \in Nat \X Nat \X Nat] ==
    IF b[1] >= b[2] THEN b[1]
    ELSE IF ((b[1] + b[2] + 1) \div 2) * ((b[1] + b[2] + 1) \div 2) <= b[3]
         THEN ISqrtSearch[<<(b[1] + b[2] + 1) \div 2, b[2], b[3]>>]
         ELSE ISqrtSearch[<<b[1], ((b[1] + b[2] + 1) \div 2) - 1, b[3]>>]

\* the nearer of s and s + 1 to the square root of n, for s = floor(sqrt(n))
NearestRoot(n, s) == IF n - s * s > s THEN s + 1 ELSE s

\* Math.sqrt, rounded to nearest (of a >= 0; the search covers a * Scale < 2^31)
Sqrt(a) == NearestRoot(a * Scale, ISqrtSearch[<<0, 46340, a * Scale>>])

\* JavaScript's remainder: the sign of the dividend
JsRem(a, b) == IF a >= 0 THEN a % b ELSE -((-a) % b)

---------------------------------------------------------------------------
(* Polygon primitives                                                      *)

\* index of the vertex before i (j = i++ in the loop header, starting at length-1)
Prev(i, n) == IF i = 1 THEN n ELSE i - 1

\* index of the vertex after i ((i + 1) % length)
Succ(i, n) == IF i = n THEN 1 ELSE i + 1

Intersects(point, poly, i) ==
    LET j  == Prev(i, Len(poly))
        xi == poly[i].x
        yi == poly[i].y
        xj == poly[j].x
        yj == poly[j].y
    IN  /\ (yi > point.y) # (yj > point.y)
        /\ point.x < Div(Mul(xj - xi, point.y - yi), yj - yi) + xi

isPointInPolygon(point, poly) ==
    Cardinality({i \in 1..Len(poly) : Intersects(point, poly, i)}) % 2 = 1

dist2(v, w) == Mul(v.x - w.x, v.x - w.x) + Mul(v.y - w.y, v.y - w.y)

distanceToSegment(p, v, w) ==
    LET l2 == dist2(v, w) IN
    IF l2 = 0 THEN Sqrt(dist2(p, v))
    ELSE LET t0 == Div(Mul(p.x - v.x, w.x - v.x) + Mul(p.y - v.y, w.y - v.y), l2)
             t  == Max2(0, Min2(Scale, t0))
             projection == [x |-> v.x + Mul(t, w.x - v.x), y |-> v.y + Mul(t, w.y - v.y)]
         IN  Sqrt(dist2(p, projection))

RECURSIVE MinSegDistance(_, _, _)
\* the minimum over the edges i..Len(poly) of the distance to the edge
MinSegDistance(point, poly, i) ==
    LET here == distanceToSegment(point, poly[i], poly[Succ(i, Len(poly))]) IN
    IF i = Len(poly) THEN here
    ELSE Min2(here, MinSegDistance(point, poly, i + 1))

\* for a polygon with at least one vertex (with none the source returns Infinity)
distanceToPolygonEdge(point, poly) == MinSegDistance(point, poly, 1)

\* faulty variant: the comparison the wrong way round
ClearsEdgesInverted(point, poly, r) ==
    IF Len(poly) = 0 THEN FALSE ELSE distanceToPolygonEdge(point, poly) <= r

\* dist >= r with dist = distanceToPolygonEdge(point, poly); for an empty
\* polygon the distance is Infinity, which is >= every r
ClearsEdges(point, poly, r) ==
    IF Len(poly) = 0 THEN TRUE ELSE distanceToPolygonEdge(point, poly) >= r

RECURSIVE ShoelaceSum(_, _)
ShoelaceSum(poly, i) ==
    IF i > Len(poly) THEN 0
    ELSE LET j == Succ(i, Len(poly)) IN
         Mul(poly[i].x, poly[j].y) - Mul(poly[j].x, poly[i].y) + ShoelaceSum(poly, i + 1)

\* faulty variant: the absolute value forgotten
calculatePolygonAreaSigned(poly) == Half(ShoelaceSum(poly, 1))

calculatePolygonArea(poly) == Abs(Half(ShoelaceSum(poly, 1)))

RECURSIVE SeqMin(_, _)
SeqMin(s, i) == IF i = Len(s) THEN s[i] ELSE Min2(s[i], SeqMin(s, i + 1))

RECURSIVE SeqMax(_, _)
SeqMax(s, i) == IF i = Len(s) THEN s[i] ELSE Max2(s[i], SeqMax(s, i + 1))

\* finite = FALSE stands for the box (Infinity, Infinity, -Infinity, -Infinity)
\* that the reduction leaves for an empty polygon
getBoundingBox(poly) ==
    IF Len(poly) = 0 THEN [finite |-> FALSE, minX |-> 0, minY |-> 0, maxX |-> 0, maxY |-> 0]
    ELSE LET xs == [i \in 1..Len(poly) |-> poly[i].x]
             ys == [i \in 1..Len(poly) |-> poly[i].y]
         IN  [finite |-> TRUE,
              minX |-> SeqMin(xs, 1), minY |-> SeqMin(ys, 1),
              maxX |-> SeqMax(xs, 1), maxY |-> SeqMax(ys, 1)]

---------------------------------------------------------------------------
(* optimizeCircles                                                         *)

angles == <<0, 15, 30, 45, 60>>

\* Math.cos(angle * PI / 180) and Math.sin(angle * PI / 180) for the five angles
CosTable == <<1000, 966, 866, 707, 500>>

SinTable == <<0, 259, 500, 707, 866>>

\* Math.sqrt(3)
Sqrt3 == 1732

\* faulty variant: the gap subtracted instead of added
PitchMinusSpacing(r, sp) == (r * 2) - sp

Pitch(r, sp) == (r * 2) + sp

RowHeight(d) == Half(Mul(d, Sqrt3))

\* steps = Math.ceil(diagonal / d) + 2: a number, Infinity, -Infinity or NaN
Steps(poly, d) ==
    LET bounds == getBoundingBox(poly) IN
    IF ~bounds.finite
    THEN [kind |-> IF d >= 0 THEN "Infinity" ELSE "-Infinity", n |-> 0]
    ELSE LET width    == bounds.maxX - bounds.minX
             height   == bounds.maxY - bounds.minY
             diagonal == Sqrt(Mul(width, width) + Mul(height, height))
         IN  IF d = 0
             THEN [kind |-> IF diagonal = 0 THEN "NaN" ELSE "Infinity", n |-> 0]
             ELSE [kind |-> "finite", n |-> Ceil(Div(diagonal, d)) + 2]

\* faulty variant: the loops run one index too far
GridSideOneMore(st) == IF st.kind = "finite" /\ st.n >= 0 THEN 2 * st.n + 2 ELSE 0

\* the number of rows (and of columns) the loops enumerate: -steps..steps
GridSide(st) == IF st.kind = "finite" /\ st.n >= 0 THEN 2 * st.n + 1 ELSE 0

OffsetX(d, ox) == IF ox = 0 THEN 0 ELSE Half(d)

OffsetY(d, oy) == IF oy = 0 THEN 0 ELSE Half(RowHeight(d))

\* the lattice point of (row, col), rotated about the centre of the box
LatticePoint(bounds, d, a, ox, oy, row, col) ==
    LET cos     == CosTable[a]
        sin     == SinTable[a]
        centerX == Half(bounds.minX + bounds.maxX)
        centerY == Half(bounds.minY + bounds.maxY)
        hexX    == col * d + JsRem(row, 2) * Half(d) + OffsetX(d, ox)
        hexY    == row * RowHeight(d) + OffsetY(d, oy)
    IN  [x |-> (Mul(hexX, cos) - Mul(hexY, sin)) + centerX,
         y |-> (Mul(hexX, sin) + Mul(hexY, cos)) + centerY]

\* 1. Coarse check: bounding box
CoarseReject(p, bounds, r) ==
    \/ p.x < bounds.minX - r
    \/ p.x > bounds.maxX + r
    \/ p.y < bounds.minY - r
    \/ p.y > bounds.maxY + r

\* faulty variant: the clearance check forgotten
StrictAcceptInsideOnly(p, poly, r) == isPointInPolygon(p, poly)

\* 2. Strict check: inside polygon AND not clipping edges
StrictAccept(p, poly, r) ==
    isPointInPolygon(p, poly) /\ ClearsEdges(p, poly, r)

Accept(p, poly, bounds, r) ==
    ~CoarseReject(p, bounds, r) /\ StrictAccept(p, poly, r)

DigitChars == <<"0", "1", "2", "3", "4", "5", "6", "7", "8", "9">>

RECURSIVE Digits(_)
\* the decimal digits of n >= 0, as characters
Digits(n) ==
    IF n < 10 THEN <<DigitChars[n + 1]>>
    ELSE Append(Digits(n \div 10), DigitChars[(n % 10) + 1])

\* String(n): the characters of a number, "-" first when negative
NumStr(n) == IF n < 0 THEN <<"-">> \o Digits(-n) ELSE Digits(n)

\* faulty variant: col written where row was meant
CircleIdColTwice(angle, row, col) ==
    NumStr(angle) \o <<"-">> \o NumStr(col) \o <<"-">> \o NumStr(col)

\* `${angle}-${row}-${col}`
CircleId(angle, row, col) ==
    NumStr(angle) \o <<"-">> \o NumStr(row) \o <<"-">> \o NumStr(col)

\* the candidates of one (angle, offX, offY) combination, in the order of
\* the row loop and the col loop inside it
Candidates(poly, r, sp, a, ox, oy) ==
    LET d      == Pitch(r, sp)
        st     == Steps(poly, d)
        side   == GridSide(st)
        bounds == getBoundingBox(poly)
        Row(i) == ((i - 1) \div side) - st.n
        Col(i) == ((i - 1) % side) - st.n
        pts    == [i \in 1..(side * side) |->
                     [row |-> Row(i), col |-> Col(i),
                      p |-> LatticePoint(bounds, d, a, ox, oy, Row(i), Col(i))]]
        kept   == SelectSeq(pts, LAMBDA e : Accept(e.p, poly, bounds, r))
    IN  [i \in 1..Len(kept) |->
            [x |-> kept[i].p.x, y |-> kept[i].p.y, r |-> r,
             id |-> CircleId(angles[a], kept[i].row, kept[i].col)]]

NumCombos == Len(angles) * 2 * 2

\* the combination visited k-th (from 0): angle outermost, then offX, then offY
ComboAngle(c) == (c \div 4) + 1

ComboOffX(c) == (c \div 2) % 2

ComboOffY(c) == c % 2

ComboCandidates(poly, r, sp, c) ==
    Candidates(poly, r, sp, ComboAngle(c), ComboOffX(c), ComboOffY(c))

\* faulty variant: >= for >, so that a later tie replaces the first
ImprovesOrTies(count, best) == count >= best

\* candidates.length > maxCount
Improves(count, best) == count > best

---------------------------------------------------------------------------
(* The App component as mounted (the useState defaults); the specifications *)
(* of the geometry functions leave it there                                 *)

InitialDiameter == 35

NoRecipe == [kind |-> "null", count |-> 0, diameter |-> 0]

AppMounted ==
    /\ mode = "DRAWING"
    /\ points = <<>>
    /\ circles = <<>>
    /\ pelmeniDiameter = InitialDiameter
    /\ recipe = NoRecipe
    /\ loadingRecipe = FALSE
    /\ timers = <<>>
    /\ fetches = {}

---------------------------------------------------------------------------
(* Inputs                                                                  *)

MaxRadius == 2

MaxSpacing == 2

MaxSpin == 3

Pt(x, y) == [x |-> x * Scale, y |-> y * Scale]

NoPoints == <<>>

OnePoint == <<Pt(2, 2)>>

TwoPoints == <<Pt(0, 0), Pt(4, 4)>>

Triangle == <<Pt(0, 0), Pt(6, 0), Pt(0, 6)>>

Square4 == <<Pt(0, 0), Pt(4, 0), Pt(4, 4), Pt(0, 4)>>

Square6 == <<Pt(0, 0), Pt(6, 0), Pt(6, 6), Pt(0, 6)>>

Polygons == {NoPoints, OnePoint, TwoPoints, Triangle, Square4, Square6}

Radii == {r * Scale : r \in (-1)..MaxRadius}

Spacings == {s * Scale : s \in (-2)..MaxSpacing}

---------------------------------------------------------------------------
(* The state machine of one call optimizeCircles(polygon, radius, spacing) *)

Init ==
    /\ AppMounted
    /\ polygon \in Polygons
    /\ radius \in Radii
    /\ spacing \in Spacings
    /\ pc = "scan"
    /\ k = 0
    /\ maxCount = 0
    /\ bestResult = <<>>
    /\ result = <<>>
    /\ visited = 0
    /\ radius2 = 0
    /\ spacing2 = 0
    /\ maxCount2 = 0
    /\ areas = <<>>

\* one pass of the body of the offY loop: a whole (angle, offX, offY) combination
ScanCombo ==
    /\ UNCHANGED appVars
    /\ pc = "scan"
    /\ k < NumCombos
    /\ Steps(polygon, Pitch(radius, spacing)).kind # "Infinity"
    /\ LET candidates == ComboCandidates(polygon, radius, spacing, k)
           side == GridSide(Steps(polygon, Pitch(radius, spacing)))
       IN  /\ IF Improves(Len(candidates), maxCount)
              THEN maxCount' = Len(candidates) /\ bestResult' = candidates
              ELSE UNCHANGED <<maxCount, bestResult>>
           /\ visited' = visited + side * side
    /\ k' = k + 1
    /\ UNCHANGED <<polygon, radius, spacing, pc, result, radius2, spacing2, maxCount2, areas>>

\* steps is Infinity: row and col start at -Infinity and `col++` leaves col
\* at -Infinity, so the col loop runs its body for ever; the point is NaN and
\* is never pushed.  Each step is one more pass of the loop body; the counter
\* of visited points is kept in 1..MaxSpin by wrapping round.
ScanDiverge ==
    /\ UNCHANGED appVars
    /\ pc = "scan"
    /\ k < NumCombos
    /\ Steps(polygon, Pitch(radius, spacing)).kind = "Infinity"
    /\ visited' = IF visited < MaxSpin THEN visited + 1 ELSE 1
    /\ UNCHANGED <<polygon, radius, spacing, pc, k, maxCount, bestResult, result,
                   radius2, spacing2, maxCount2, areas>>

\* return bestResult
Return ==
    /\ UNCHANGED appVars
    /\ pc = "scan"
    /\ k = NumCombos
    /\ pc' = "done"
    /\ result' = bestResult
    /\ UNCHANGED <<polygon, radius, spacing, k, maxCount, bestResult, visited,
                   radius2, spacing2, maxCount2, areas>>

Next == ScanCombo \/ ScanDiverge \/ Return

Spec == Init /\ [][Next]_vars

\* what a step of the running call changes of its position: a combination
\* completed (the loop bound is a number) or the return after the last one
Advance ==
    /\ pc = "scan"
    /\ \/ /\ k < NumCombos
          /\ Steps(polygon, Pitch(radius, spacing)).kind # "Infinity"
          /\ k' = k + 1
          /\ pc' = pc
       \/ /\ k = NumCombos
          /\ pc' = "done"
          /\ k' = k

\* the call keeps running: while it can complete a combination or return,
\* it eventually does, and a loop that cannot end keeps taking its steps
FairSpec == Spec /\ WF_<<pc, k>>(Advance) /\ WF_visited(ScanDiverge)

---------------------------------------------------------------------------
(* Two calls on the same polygon, optimizeCircles(polygon, radius, spacing) *)
(* and optimizeCircles(polygon, radius2, spacing2) with radius < radius2,   *)
(* advanced in step, one combination of each per step.                      *)

MaxQuarterRadius == 5

UShape == <<Pt(0, 0), Pt(10, 0), Pt(10, 3), Pt(8, 3), Pt(8, 1), Pt(2, 1), Pt(2, 3), Pt(0, 3)>>

PairPolygons == {UShape, Square4}

\* radii in steps of a quarter unit, from 0.75
PairRadii == {q * (Scale \div 4) : q \in 3..MaxQuarterRadius}

PairSpacings == {s * Scale : s \in 1..MaxSpacing}

PairInit ==
    /\ AppMounted
    /\ polygon \in PairPolygons
    /\ radius \in PairRadii
    /\ radius2 \in PairRadii
    /\ radius < radius2
    /\ spacing \in PairSpacings
    /\ spacing2 \in {spacing, Pitch(radius, spacing) - (radius2 * 2)}
    /\ pc = "scan"
    /\ k = 0
    /\ maxCount = 0
    /\ maxCount2 = 0
    /\ bestResult = <<>>
    /\ result = <<>>
    /\ visited = 0
    /\ areas = <<>>

PairScanCombo ==
    /\ UNCHANGED appVars
    /\ pc = "scan"
    /\ k < NumCombos
    /\ LET candidates  == ComboCandidates(polygon, radius, spacing, k)
           candidates2 == ComboCandidates(polygon, radius2, spacing2, k)
       IN  /\ maxCount' = IF Improves(Len(candidates), maxCount)
                          THEN Len(candidates) ELSE maxCount
           /\ maxCount2' = IF Improves(Len(candidates2), maxCount2)
                           THEN Len(candidates2) ELSE maxCount2
    /\ k' = k + 1
    /\ UNCHANGED <<polygon, radius, spacing, radius2, spacing2, pc, bestResult,
                   result, visited, areas>>

PairReturn ==
    /\ UNCHANGED appVars
    /\ pc = "scan"
    /\ k = NumCombos
    /\ pc' = "done"
    /\ UNCHANGED <<polygon, radius, spacing, radius2, spacing2, k, maxCount, maxCount2,
                   bestResult, result, visited, areas>>

PairNext == PairScanCombo \/ PairReturn

PairSpec == PairInit /\ [][PairNext]_vars

---------------------------------------------------------------------------
(* calculatePolygonArea applied to a vertex list, to its cyclic rotations  *)
(* and to its reversal                                                     *)

MaxCoord == 2

\* triangles and quadrilaterals
AreaLengths == {3, 4}

GridPoints == {Pt(x, y) : x \in 0..MaxCoord, y \in 0..MaxCoord}

AreaPolygons == UNION {[1..n -> GridPoints] : n \in AreaLengths}

\* the list starting at vertex n + 1 (a cyclic re-indexing of the vertex list)
RotateList(poly, n) == [i \in 1..Len(poly) |-> poly[((i - 1 + n) % Len(poly)) + 1]]

\* the list in the opposite winding order
ReverseList(poly) == [i \in 1..Len(poly) |-> poly[Len(poly) + 1 - i]]

AreaInit ==
    /\ AppMounted
    /\ polygon \in AreaPolygons
    /\ pc = "area"
    /\ areas = <<>>
    /\ radius = 0
    /\ spacing = 0
    /\ radius2 = 0
    /\ spacing2 = 0
    /\ k = 0
    /\ maxCount = 0
    /\ maxCount2 = 0
    /\ bestResult = <<>>
    /\ result = <<>>
    /\ visited = 0

\* areas[1] is the area of the list, areas[n + 1] of its rotation by n, and
\* the last entry the area of the reversed list
ComputeAreas ==
    /\ UNCHANGED appVars
    /\ pc = "area"
    /\ areas' = [n \in 1..(Len(polygon) + 1) |->
                    IF n <= Len(polygon)
                    THEN calculatePolygonArea(RotateList(polygon, n - 1))
                    ELSE calculatePolygonArea(ReverseList(polygon))]
    /\ pc' = "areaDone"
    /\ UNCHANGED <<polygon, radius, spacing, radius2, spacing2, k, maxCount, maxCount2,
                   bestResult, result, visited>>

AreaNext == ComputeAreas

AreaSpec == AreaInit /\ [][AreaNext]_vars

---------------------------------------------------------------------------
(* optimizeCircles as one call                                             *)

\* the loops over the combinations, given the number of candidates of each:
\* s[1] combinations are done, s[2] is the combination whose candidates
\* bestResult holds (0: none, bestResult is the empty list, maxCount is 0),
\* s[3] the numbers of candidates of the combinations 1..NumCombos
ScanFrom[s \in Nat \X Nat \X Seq(Nat)] ==
    IF s[1] = NumCombos THEN s[2]
    ELSE ScanFrom[<<s[1] + 1,
                    IF Improves(s[3][s[1] + 1], IF s[2] = 0 THEN 0 ELSE s[3][s[2]])
                    THEN s[1] + 1 ELSE s[2],
                    s[3]>>]

\* the combination whose candidates optimizeCircles returns (0: none)
BestCombo(poly, r, sp) ==
    ScanFrom[<<0, 0, [c \in 1..NumCombos |-> Len(ComboCandidates(poly, r, sp, c - 1))]>>]

\* Point[]
PointLists == Seq([x : Int, y : Int])

\* the list a call returns (for a polygon and a pitch that give finite steps)
ReturnedOf[b \in Nat \X PointLists \X Int \X Int] ==
    IF b[1] = 0 THEN <<>> ELSE ComboCandidates(b[2], b[3], b[4], b[1] - 1)

optimizeCircles(poly, r, sp) == ReturnedOf[<<BestCombo(poly, r, sp), poly, r, sp>>]

---------------------------------------------------------------------------
(* The App component: user actions and the callbacks they leave pending     *)
(* Lengths are in centimetres, 1 pixel = 1 mm.                              *)

MaxPoints == 3

MaxTimers == 1

SliderMin == 20

CloseDistance == 20

OptimizeSpacing == 2

Mm(n) == n * (Scale \div 10)

\* the corners of the sheet the user draws, in drawing order
Corners == <<Pt(0, 0), Pt(8, 0), Pt(8, 8), Pt(0, 8)>>

Corner(n) == Corners[((n - 1) % Len(Corners)) + 1]

\* the positions the n-th point is placed at: the user clicks on the next
\* corner or on the start point again
ClickPositions(n) == {Corner(n), Corner(1)}

\* the slider values the user chooses
Diameters == {SliderMin, InitialDiameter}

\* the point lists the user can have drawn when optimizing
AppPolygons ==
    UNION {{p \in [1..n -> {Corners[i] : i \in 1..Len(Corners)}] :
               \A i \in 1..n : p[i] \in ClickPositions(i)} : n \in 3..MaxPoints}

\* const radius = pelmeniDiameter / 2
RadiusOf(diameter) == Half(Mm(diameter))

\* what the timeout callback computes for the points and radius it captured
\* (f @@ <<>> is f, tabulated)
OptimizeTable ==
    [b \in AppPolygons \X Diameters |->
        optimizeCircles(b[1], RadiusOf(b[2]), Mm(OptimizeSpacing))] @@ <<>>

\* the click is near the start point
NearStart(cursorPos) == Sqrt(dist2(cursorPos, points[1])) < Mm(CloseDistance)

AppInit ==
    /\ AppMounted
    /\ polygon = <<>>
    /\ radius = 0
    /\ spacing = 0
    /\ pc = "app"
    /\ k = 0
    /\ maxCount = 0
    /\ bestResult = <<>>
    /\ result = <<>>
    /\ visited = 0
    /\ radius2 = 0
    /\ spacing2 = 0
    /\ maxCount2 = 0
    /\ areas = <<>>

\* DoughCanvas.handleClick, with App.handleClosePolygon and App.handleAddPoint
handleClick ==
    /\ mode = "DRAWING"
    /\ \E cursorPos \in ClickPositions(Len(points) + 1) :
          IF Len(points) > 2 /\ NearStart(cursorPos)
          THEN /\ mode' = "CLOSED"
               /\ UNCHANGED points
          ELSE /\ Len(points) < MaxPoints
               /\ points' = Append(points, cursorPos)
               /\ UNCHANGED mode
    /\ UNCHANGED <<circles, pelmeniDiameter, recipe, loadingRecipe, timers, fetches>>
    /\ UNCHANGED geometryVars

\* the button "Optimize Topology" (shown in mode CLOSED)
handleOptimize ==
    /\ mode = "CLOSED"
    /\ Len(timers) < MaxTimers
    /\ IF Len(points) < 3
       THEN UNCHANGED <<mode, timers>>
       ELSE /\ mode' = "OPTIMIZING"
            /\ timers' = Append(timers, [points |-> points, diameter |-> pelmeniDiameter])
    /\ UNCHANGED <<points, circles, pelmeniDiameter, recipe, loadingRecipe, fetches>>
    /\ UNCHANGED geometryVars

\* the callback of setTimeout(..., 100): it uses the points and the radius of
\* the render in which the button was clicked
OptimizeTimeout ==
    /\ timers # <<>>
    /\ circles' = OptimizeTable[<<Head(timers).points, Head(timers).diameter>>]
    /\ mode' = "DONE"
    /\ timers' = Tail(timers)
    /\ UNCHANGED <<points, pelmeniDiameter, recipe, loadingRecipe, fetches>>
    /\ UNCHANGED geometryVars

\* the buttons "Reset / New Dough" (mode DONE) and "Clear Canvas" (mode
\* neither DONE nor CLOSED, some point placed)
handleClear ==
    /\ \/ mode = "DONE"
       \/ mode # "DONE" /\ mode # "CLOSED" /\ Len(points) > 0
    /\ points' = <<>>
    /\ circles' = <<>>
    /\ mode' = "DRAWING"
    /\ recipe' = NoRecipe
    /\ UNCHANGED <<pelmeniDiameter, loadingRecipe, timers, fetches>>
    /\ UNCHANGED geometryVars

\* the slider (disabled in mode DONE)
setPelmeniDiameter ==
    /\ mode # "DONE"
    /\ \E value \in Diameters :
          /\ value # pelmeniDiameter
          /\ pelmeniDiameter' = value
    /\ UNCHANGED <<mode, points, circles, recipe, loadingRecipe, timers, fetches>>
    /\ UNCHANGED geometryVars

\* the button "Calculate Ingredients" (mode DONE, disabled while loadingRecipe
\* or with a recipe), up to the await
handleGetRecipe ==
    /\ mode = "DONE"
    /\ ~loadingRecipe
    /\ recipe = NoRecipe
    /\ IF Len(circles) = 0
       THEN UNCHANGED <<loadingRecipe, fetches>>
       ELSE /\ loadingRecipe' = TRUE
            /\ fetches' = fetches \cup {[count |-> Len(circles), diameter |-> pelmeniDiameter]}
    /\ UNCHANGED <<mode, points, circles, pelmeniDiameter, recipe, timers>>
    /\ UNCHANGED geometryVars

\* what fetchPelmeniRecipe resolves with: a JSON object of the model ("data"),
\* the JSON object of its catch ("fetchError"), or a text that JSON.parse
\* rejects ("parseError": the message for a missing API key)
FetchOutcomes == {"data", "fetchError", "parseError"}

\* handleGetRecipe after the await: setRecipe of the try or of the catch,
\* then the finally
RecipeArrives ==
    /\ \E f \in fetches, outcome \in FetchOutcomes :
          /\ recipe' = [kind |-> outcome, count |-> f.count, diameter |-> f.diameter]
          /\ fetches' = fetches \ {f}
    /\ loadingRecipe' = FALSE
    /\ UNCHANGED <<mode, points, circles, pelmeniDiameter, timers>>
    /\ UNCHANGED geometryVars

AppNext ==
    \/ handleClick
    \/ handleOptimize
    \/ OptimizeTimeout
    \/ handleClear
    \/ setPelmeniDiameter
    \/ handleGetRecipe
    \/ RecipeArrives

AppSpec == AppInit /\ [][AppNext]_vars

\* the promise of fetchPelmeniRecipe settles (it resolves on success and, by
\* its own catch, on failure)
AppFairSpec == AppSpec /\ WF_vars(RecipeArrives)

---------------------------------------------------------------------------
(* Properties                                                              *)

Centre(c) == [x |-> c.x, y |-> c.y]

\* the integer square of the distance between two centres, in 1/Scale^2
CentreDist2(a, b) == (a.x - b.x) * (a.x - b.x) + (a.y - b.y) * (a.y - b.y)

\* the circle's id names a negative odd row: its first "-" is followed by
\* "-", an odd digit and the "-" before the column
FromNegativeOddRow(c) ==
    \E i \in 1..(Len(c.id) - 3) :
        /\ \A j \in 1..(i - 1) : c.id[j] # "-"
        /\ c.id[i] = "-"
        /\ c.id[i + 1] = "-"
        /\ c.id[i + 2] \in {"1", "3", "5", "7", "9"}
        /\ c.id[i + 3] = "-"

\* C1: for a polygon of at least 3 vertices and a radius > 0 (any spacing),
\* every circle of the returned list has its centre inside the polygon
\* (isPointInPolygon) and at least radius away from every edge
\* (distanceToPolygonEdge >= radius).
C1_CirclesInsideAndClear ==
    (pc = "done" /\ Len(polygon) >= 3 /\ radius > 0) =>
        \A i \in 1..Len(result) :
            /\ isPointInPolygon(Centre(result[i]), polygon)
            /\ distanceToPolygonEdge(Centre(result[i]), polygon) >= radius

\* C1 witness: a returned list with several circles
C1_Witness ==
    pc = "done" /\ Len(polygon) >= 3 /\ radius > 0 /\ Len(result) >= 2

C3_Pre == Len(polygon) >= 3 /\ radius > 0 /\ spacing > 0

C3_Bounded ==
    C3_Pre =>
        LET st == Steps(polygon, Pitch(radius, spacing)) IN
        /\ st.kind = "finite"
        /\ visited <= 5 * 4 * (2 * st.n + 1) * (2 * st.n + 1)
        /\ (pc = "done" /\ result # <<>>) =>
               \E c \in 0..(NumCombos - 1) :
                   ComboCandidates(polygon, radius, spacing, c) # <<>>

\* C3: for a polygon of at least 3 vertices and positive radius and spacing
\* the call returns (it reaches "done"), having visited at most
\* 5 * 4 * (2 * steps + 1)^2 lattice points with steps finite, and what it
\* returns is the empty list when no lattice point of any combination
\* passes the checks.
C3_Terminates == [](C3_Bounded) /\ (C3_Pre ~> (pc = "done"))

\* C3 witness: a call that visited lattice points and returned the empty list
C3_Witness ==
    pc = "done" /\ C3_Pre /\ visited > 0 /\ result = <<>>

\* C4 as stated: a call with a polygon of fewer than 3 vertices and positive
\* radius and spacing returns, and returns the empty list.
C4_FewVerticesReturnEmpty ==
    (Len(polygon) < 3 /\ radius > 0 /\ spacing > 0) =>
        <>(pc = "done" /\ result = <<>>)

\* C5 as stated: a call with radius <= 0 or spacing <= 0 enumerates no
\* lattice point (it is rejected before the search).
C5_NonPositiveRejected ==
    (radius <= 0 \/ spacing <= 0) => visited = 0

\* the numbers of candidates of the 20 combinations, in enumeration order
ComboCounts ==
    [c \in 0..(NumCombos - 1) |-> Len(ComboCandidates(polygon, radius, spacing, c))]

C7_UniqueIds ==
    /\ \A i, j \in 1..Len(bestResult) : i < j => bestResult[i].id # bestResult[j].id
    /\ \A i, j \in 1..Len(result) : i < j => result[i].id # result[j].id

\* the id has two "-" in a row: a negative row or a negative column
HasNegativeIndex(c) == \E i \in 1..(Len(c.id) - 1) : c.id[i] = "-" /\ c.id[i + 1] = "-"

\* C7 witness: a returned list of several circles, with negative and
\* non-negative indices among them
C7_Witness ==
    /\ pc = "done"
    /\ Len(result) >= 3
    /\ \E i \in 1..Len(result) : HasNegativeIndex(result[i])
    /\ \E i \in 1..Len(result) : ~HasNegativeIndex(result[i])

\* C8: calculatePolygonArea gives the same non-negative value for a vertex
\* list, for each of its cyclic rotations and for the reversed list.
C8_AreaInvariant ==
    pc = "areaDone" =>
        \A n \in 1..Len(areas) : areas[n] = areas[1] /\ areas[n] >= 0

\* C8 witness: a quadrilateral of positive area
C8_Witness ==
    pc = "areaDone" /\ Len(polygon) = 4 /\ areas[1] > 0

\* C9 as stated: with the spacing fixed, the larger radius never yields
\* more circles than the smaller one.
C9_MonotoneFixedSpacing ==
    (pc = "done" /\ spacing2 = spacing) => maxCount2 <= maxCount

\* C9 amended: with the lattice pitch 2 * radius + spacing fixed (the same
\* search grid), the larger radius never yields more circles than the
\* smaller one.
C9_MonotoneFixedPitch ==
    Pitch(radius2, spacing2) = Pitch(radius, spacing) => maxCount2 <= maxCount

\* C9 witness: two finished calls of equal pitch, the larger radius with
\* circles and with fewer of them than the smaller
C9_Witness ==
    /\ pc = "done"
    /\ Pitch(radius2, spacing2) = Pitch(radius, spacing)
    /\ radius < radius2
    /\ maxCount2 >= 1
    /\ maxCount2 < maxCount

\* C10 as stated: for every lattice point of the combination about to be
\* scanned, the decision with the coarse bounding-box filter is the decision
\* of the strict checks alone.
C10_CoarseFilterNoEffect ==
    (pc = "scan" /\ k < NumCombos) =>
        LET d      == Pitch(radius, spacing)
            st     == Steps(polygon, d)
            bounds == getBoundingBox(polygon)
        IN  GridSide(st) > 0 =>
                \A row, col \in (-st.n)..(st.n) :
                    LET p == LatticePoint(bounds, d, ComboAngle(k), ComboOffX(k),
                                          ComboOffY(k), row, col)
                    IN  Accept(p, polygon, bounds, radius) <=> StrictAccept(p, polygon, radius)

\* C11 as stated: whenever mode is DONE the points list has at least 3
\* vertices and circles is what the optimizer returns for the current points
\* (for some slider value); a timeout left pending by handleOptimize must not
\* bring mode DONE back after handleClear.
C11_DoneHasCurrentPacking ==
    mode = "DONE" =>
        /\ Len(points) >= 3
        /\ \E d \in Diameters : circles = OptimizeTable[<<points, d>>]

\* C12 as stated: whenever mode is DONE every circle of circles has r equal
\* to the current pelmeniDiameter / 2, the radius of the stats.
C12_CircleRadiusIsCurrent ==
    mode = "DONE" =>
        \A i \in 1..Len(circles) : circles[i].r = RadiusOf(pelmeniDiameter)

\* C13 as stated (safety half): a recipe that is not null belongs to the
\* current packing: mode is DONE and the recipe was asked for the circles
\* and the diameter on display; after handleClear it stays null until a
\* handleGetRecipe started later completes.
C13_RecipeBelongsToPacking ==
    recipe # NoRecipe =>
        /\ mode = "DONE"
        /\ recipe.count = Len(circles)
        /\ recipe.diameter = pelmeniDiameter

\* C13 (liveness half): loadingRecipe eventually returns to false
LoadingRecipeEnds == loadingRecipe ~> ~loadingRecipe

=============================================================================
